---- MODULE Spec2Model ----
(***************************************************************************)
(* Model of cloud_engineer_agent.py: the module-level start-up sequence    *)
(* (environment validation, the two MCP clients, the tool registry, the    *)
(* Agent), the cleanup routine registered with atexit, and task execution. *)
(*                                                                         *)
(* The external collaborators (MCPClient, BedrockModel, Agent) are opaque: *)
(* each call to them either returns or raises one of the exception kinds   *)
(* of Errors, drawn with \E in the action that makes the call.             *)
(* is_windows only selects the launch command handed to the client         *)
(* factory (lines 82-127); both branches make the same two calls in the    *)
(* same order, so the launch command is part of the factory's outcome.     *)
(* stdout is kept as the set of lines printed so far.                      *)
(***************************************************************************)
EXTENDS Integers, Sequences, FiniteSets

\* ------------------------------------------------------------ bounds

\* Largest number of tool descriptors one provider serves.
MaxTools == 2
\* Largest number of direct calls of cleanup() made by the importing code
\* (the atexit hook's own run comes on top of these).
MaxCleanupCalls == 1
\* Largest number of sub-exceptions a grouped failure carries.
MaxSubCauses == 2

\* ------------------------------------------------------------ values

None == "None"

Providers == {"docs", "diagram"}

\* What a call to an external collaborator can raise.  RuntimeError stands
\* for any ordinary error; ExceptionGroup is an Exception whose type name is
\* "ExceptionGroup"; BaseExceptionGroup and KeyboardInterrupt derive from
\* BaseException only.
Errors == {"RuntimeError", "ExceptionGroup", "BaseExceptionGroup", "KeyboardInterrupt"}

Outcomes == {"ok"} \cup Errors

\* isinstance(e, Exception)
IsException(e) == e \in {"RuntimeError", "ExceptionGroup"}

\* hasattr(e, 'exceptions')
HasSubExceptions(e) == e \in {"ExceptionGroup", "BaseExceptionGroup"}

\* The tool descriptors a provider serves when it serves n of them.
ToolsOf(p, n) == [i \in 1..n |-> [provider |-> p, idx |-> i]]

\* [use_aws], the built-in tool of line 215.
BuiltIns == << [provider |-> "builtin", idx |-> 1] >>

\* ------------------------------------------------------------ environment

RequiredVars == {"AWS_REGION", "AWS_ACCESS_KEY_ID", "AWS_SECRET_ACCESS_KEY"}

OptionalVars == {"AWS_SESSION_TOKEN"}

\* The cases of os.environ.get(name): absent, "", whitespace only, a value.
EnvValues == {"unset", "empty", "blank", "set"}

\* The mutant of IsMissing that does not strip the value.
IsMissingUnstripped(v) == v \in {"unset", "empty"}

\* not value or value.strip() == ""
IsMissing(v) == v \in {"unset", "empty"} \/ v = "blank"

\* The mutant of MissingRequired that also demands the optional variables.
MissingRequiredOrOptional(e) ==
    {n \in RequiredVars \cup OptionalVars : IsMissing(e[n])}

MissingRequired(e) == {n \in RequiredVars : IsMissing(e[n])}

\* validate_environment_variables() returns instead of raising
EnvValid(e) == MissingRequired(e) = {}

VARIABLES
    env,                      \* os.environ, restricted to the AWS variables
    pc,                       \* the module-level statement to run next
    mcp_initialized,
    aws_docs_mcp_client,
    aws_diagram_mcp_client,
    docs_success,             \* "unbound" until line 114 binds it
    diagram_success,
    error_type,               \* per provider: type(e).__name__ caught at line 60
    sub_causes,               \* per provider: len(e.exceptions) of that exception
    handle,                   \* per provider: the state of its MCPClient
    served,                   \* per provider: what its list_tools_sync returns
    list_calls,               \* per provider: calls of list_tools_sync()
    attempts,                 \* per provider: calls of initialize_mcp_client
    stops,                    \* per provider: calls of stop()
    docs_tools,
    diagram_tools,
    bedrock_model,
    agent,                    \* the Agent: whether line 214 bound it, its tools
    registered,               \* atexit.register(cleanup) has run
    cleanup_runs,             \* invocations of cleanup()
    cleanup_error,            \* what the latest cleanup() raised, or "none"
    result,                   \* what the latest task function returned
    last_call,                \* the latest task call, where calls are recorded
    died_at,                  \* the statement whose exception ended the module
    exit_code,                \* -1 while the process lives
    out,                      \* lines printed so far
    found_modules,            \* health check: modules importlib can find
    present_files,            \* health check: files that exist under /app
    response                  \* health check: the latest HTTP response

vars == << env, pc, mcp_initialized, aws_docs_mcp_client, aws_diagram_mcp_client,
           docs_success, diagram_success, error_type, sub_causes, handle, served,
           list_calls, attempts, stops, docs_tools, diagram_tools, bedrock_model,
           agent, registered, cleanup_runs, cleanup_error, result, last_call, died_at,
           exit_code, out, found_modules, present_files, response >>

\* What the health check server reads and returns.
health_vars == << found_modules, present_files, response >>

\* What cloud_engineer_agent.py reads and writes, os.environ apart.
agent_vars == << pc, mcp_initialized, aws_docs_mcp_client, aws_diagram_mcp_client,
                 docs_success, diagram_success, error_type, sub_causes, handle, served,
                 list_calls, attempts, stops, docs_tools, diagram_tools, bedrock_model,
                 agent, registered, cleanup_runs, cleanup_error, result, last_call,
                 died_at, exit_code, out >>

\* No task function has been called.
NoCall == [function |-> "none", task_key |-> "none", agent_input |-> "none",
           agent_outcome |-> "none", agent_calls |-> 0]

\* health_check.py lines 30 and 52.
critical_modules == {"streamlit", "boto3", "strands_agents"}

required_files == {"app.py", "cloud_engineer_agent.py", "env_validator.py"}

\* No request has been answered yet.
NoResponse == [endpoint |-> "none", status |-> "none", http_status |-> 0,
               checks |-> [environment |-> "none", dependencies |-> "none",
                           files |-> "none"]]

\* The name agent before line 214 binds it.
NoAgent == [bound |-> FALSE, tools |-> << >>, model |-> None]

Client(p) == IF p = "docs" THEN aws_docs_mcp_client ELSE aws_diagram_mcp_client

Success(p) == IF p = "docs" THEN docs_success ELSE diagram_success

\* Lines 44-46 and the names no statement has bound yet.
AgentInit ==
    /\ pc = "validate"
    /\ mcp_initialized = FALSE
    /\ aws_docs_mcp_client = None
    /\ aws_diagram_mcp_client = None
    /\ docs_success = "unbound"
    /\ diagram_success = "unbound"
    /\ error_type = [p \in Providers |-> "none"]
    /\ sub_causes = [p \in Providers |-> 0]
    /\ handle = [p \in Providers |-> "NotStarted"]
    /\ served = [p \in Providers |-> << >>]
    /\ list_calls = [p \in Providers |-> 0]
    /\ attempts = [p \in Providers |-> 0]
    /\ stops = [p \in Providers |-> 0]
    /\ docs_tools = << >>
    /\ diagram_tools = << >>
    /\ bedrock_model = None
    /\ agent = NoAgent
    /\ registered = FALSE
    /\ cleanup_runs = 0
    /\ cleanup_error = "none"
    /\ result = "none"
    /\ last_call = NoCall
    /\ died_at = "none"
    /\ exit_code = -1
    /\ out = {}

\* The process that imports cloud_engineer_agent.py starts; the health check
\* server is not asked anything.
Init ==
    /\ env \in [RequiredVars \cup OptionalVars -> EnvValues]
    /\ AgentInit
    /\ found_modules = critical_modules
    /\ present_files = required_files
    /\ response = NoResponse

\* ------------------------------------------------------------ lines 15-22

ValidateEnv ==
    /\ pc = "validate"
    /\ IF EnvValid(env)
       THEN /\ pc' = "init_docs"
            /\ out' = out \cup {<<"Environment variable validation passed", "app">>}
            /\ UNCHANGED << died_at, exit_code >>
       ELSE /\ pc' = "exiting"
            /\ out' = out \cup {<<"FATAL: Cannot start application", "app">>}
            /\ died_at' = "validate"
            /\ exit_code' = 1
    /\ UNCHANGED << health_vars, last_call, list_calls, sub_causes, env, mcp_initialized, aws_docs_mcp_client, aws_diagram_mcp_client,
                    docs_success, diagram_success, error_type, handle, served,
                    attempts, stops, docs_tools, diagram_tools, bedrock_model, agent,
                    registered, cleanup_runs, cleanup_error, result >>

\* ------------------------------------------------------------ lines 48-79

\* The except clause of line 60 receives e.
CaughtExceptionOnly(e) == IsException(e)

CaughtAtInit(e) == TRUE

\* Line 73: the line printed for the i-th sub-exception.
SubExceptionLine ==
    << "1. sub-exception", "2. sub-exception", "3. sub-exception", "4. sub-exception" >>

\* len(e.exceptions) for an exception of kind e: a grouped failure carries
\* at least one sub-exception, any other exception has no such attribute.
SubCauseCounts(e) == IF HasSubExceptions(e) THEN 1..MaxSubCauses ELSE {0}

\* Line 66: error_type == "ExceptionGroup"
IsNamedExceptionGroup(e) == e = "ExceptionGroup"

\* Lines 62-77: the lines the except clause prints for e, which carries k
\* sub-exceptions.
ErrorReport(client_name, e, k) ==
    IF IsNamedExceptionGroup(e)
    THEN {<<"Error initializing: TaskGroup exception occurred", client_name>>,
          <<"Exception type", client_name>>}
         \cup (IF HasSubExceptions(e)
               THEN {<<"Sub-exceptions", client_name>>}
                    \cup {<<SubExceptionLine[i], client_name>> : i \in 1..k}
               ELSE {<<"Details", client_name>>})
    ELSE {<<"Error initializing", client_name>>}

\* An exception that derives from BaseException only.
IsInterrupt(e) == e \in Errors /\ ~IsException(e)

\* The mutant of initialize_mcp_client that lets an interrupt through, as
\* "except KeyboardInterrupt: raise" would.
initialize_mcp_client_passes_interrupt(client_name, f, s, k) ==
    LET e      == IF f # "ok" THEN f ELSE s
        before == {<<"Initializing", client_name>>}
                  \cup (IF f = "ok" THEN {<<"Starting", client_name>>} ELSE {})
    IN  IF e = "ok"
        THEN [client |-> client_name, success |-> "True", raised |-> "none",
              error_type |-> "none",
              out |-> before \cup {<<"started successfully", client_name>>}]
        ELSE IF IsInterrupt(e)
        THEN [client |-> None, success |-> "unbound", raised |-> e,
              error_type |-> e, out |-> before]
        ELSE [client |-> None, success |-> "False", raised |-> "none",
              error_type |-> e, out |-> before \cup ErrorReport(client_name, e, k)]

\* The mutant of initialize_mcp_client that hands back the client it built
\* when start() fails.
initialize_mcp_client_keeps_client(client_name, f, s, k) ==
    LET e      == IF f # "ok" THEN f ELSE s
        before == {<<"Initializing", client_name>>}
                  \cup (IF f = "ok" THEN {<<"Starting", client_name>>} ELSE {})
    IN  IF e = "ok"
        THEN [client |-> client_name, success |-> "True", raised |-> "none",
              error_type |-> "none",
              out |-> before \cup {<<"started successfully", client_name>>}]
        ELSE [client |-> IF f = "ok" THEN client_name ELSE None,
              success |-> "False", raised |-> "none",
              error_type |-> e, out |-> before \cup ErrorReport(client_name, e, k)]

\* The mutant of initialize_mcp_client that reports the failure and raises
\* it again.
initialize_mcp_client_reraises(client_name, f, s, k) ==
    LET e      == IF f # "ok" THEN f ELSE s
        before == {<<"Initializing", client_name>>}
                  \cup (IF f = "ok" THEN {<<"Starting", client_name>>} ELSE {})
    IN  IF e = "ok"
        THEN [client |-> client_name, success |-> "True", raised |-> "none",
              error_type |-> "none",
              out |-> before \cup {<<"started successfully", client_name>>}]
        ELSE [client |-> None, success |-> "unbound", raised |-> e,
              error_type |-> e, out |-> before \cup ErrorReport(client_name, e, k)]

\* initialize_mcp_client(client_name, client_factory), where client_factory()
\* ends as f and, when it returned, client.start() ends as s.
initialize_mcp_client(client_name, f, s, k) ==
    LET e      == IF f # "ok" THEN f ELSE s
        before == {<<"Initializing", client_name>>}
                  \cup (IF f = "ok" THEN {<<"Starting", client_name>>} ELSE {})
    IN  IF e = "ok"
        THEN [client |-> client_name, success |-> "True", raised |-> "none",
              error_type |-> "none",
              out |-> before \cup {<<"started successfully", client_name>>}]
        ELSE IF CaughtAtInit(e)
        THEN [client |-> None, success |-> "False", raised |-> "none",
              error_type |-> e, out |-> before \cup ErrorReport(client_name, e, k)]
        ELSE [client |-> None, success |-> "unbound", raised |-> e,
              error_type |-> "none", out |-> before]

\* The MCPClient after client_factory() ended as f and start() as s.
HandleAfterStart(f, s) == IF f = "ok" /\ s = "ok" THEN "Started" ELSE "Failed"

\* ------------------------------------------------------------ lines 81-127

\* Lines 114-119 (87-96 on Windows).
InitDocs ==
    /\ pc = "init_docs"
    /\ \E f \in Outcomes, s \in Outcomes, n \in 0..MaxTools, k \in 0..MaxSubCauses :
         LET r == initialize_mcp_client("docs", f, s, k)
         IN  /\ (f # "ok" => s = "ok" /\ n = 0)
             /\ k \in SubCauseCounts(IF f # "ok" THEN f ELSE s)
             /\ sub_causes' = [sub_causes EXCEPT !["docs"] = k]
             /\ attempts' = [attempts EXCEPT !["docs"] = @ + 1]
             /\ handle' = [handle EXCEPT !["docs"] = HandleAfterStart(f, s)]
             /\ served' = [served EXCEPT !["docs"] = ToolsOf("docs", n)]
             /\ error_type' = [error_type EXCEPT !["docs"] = r.error_type]
             /\ out' = out \cup r.out
             /\ IF r.raised = "none"
                THEN /\ aws_docs_mcp_client' = r.client
                     /\ docs_success' = r.success
                     /\ pc' = "init_diagram"
                ELSE /\ UNCHANGED << aws_docs_mcp_client, docs_success >>
                     /\ pc' = "handler"
    /\ UNCHANGED << health_vars, last_call, list_calls, env, mcp_initialized, aws_diagram_mcp_client, diagram_success,
                    stops, docs_tools, diagram_tools, bedrock_model, agent,
                    registered, cleanup_runs, cleanup_error, result, died_at,
                    exit_code >>

\* Lines 122-127 (99-108 on Windows).
InitDiagram ==
    /\ pc = "init_diagram"
    /\ \E f \in Outcomes, s \in Outcomes, n \in 0..MaxTools, k \in 0..MaxSubCauses :
         LET r == initialize_mcp_client("diagram", f, s, k)
         IN  /\ (f # "ok" => s = "ok" /\ n = 0)
             /\ k \in SubCauseCounts(IF f # "ok" THEN f ELSE s)
             /\ sub_causes' = [sub_causes EXCEPT !["diagram"] = k]
             /\ attempts' = [attempts EXCEPT !["diagram"] = @ + 1]
             /\ handle' = [handle EXCEPT !["diagram"] = HandleAfterStart(f, s)]
             /\ served' = [served EXCEPT !["diagram"] = ToolsOf("diagram", n)]
             /\ error_type' = [error_type EXCEPT !["diagram"] = r.error_type]
             /\ out' = out \cup r.out
             /\ IF r.raised = "none"
                THEN /\ aws_diagram_mcp_client' = r.client
                     /\ diagram_success' = r.success
                     /\ pc' = "mark"
                ELSE /\ UNCHANGED << aws_diagram_mcp_client, diagram_success >>
                     /\ pc' = "handler"
    /\ UNCHANGED << health_vars, last_call, list_calls, env, mcp_initialized, aws_docs_mcp_client, docs_success,
                    stops, docs_tools, diagram_tools, bedrock_model, agent,
                    registered, cleanup_runs, cleanup_error, result, died_at,
                    exit_code >>

\* Line 130: at least one client started.
AllClientsStarted(docs, diagram) == docs # None /\ diagram # None

AnyClientStarted(docs, diagram) == docs # None \/ diagram # None

\* Lines 129-137: the end of the try block.
MarkInitialized ==
    /\ pc = "mark"
    /\ mcp_initialized' = AnyClientStarted(aws_docs_mcp_client, aws_diagram_mcp_client)
    /\ IF mcp_initialized'
       THEN /\ pc' = "list_docs"
            /\ out' = out \cup {<<"MCP initialization complete", "app">>}
       ELSE \* raise RuntimeError("Failed to initialize any MCP clients")
            /\ pc' = "handler"
            /\ UNCHANGED out
    /\ UNCHANGED << health_vars, last_call, list_calls, sub_causes, env, aws_docs_mcp_client, aws_diagram_mcp_client, docs_success,
                    diagram_success, error_type, handle, served, attempts, stops,
                    docs_tools, diagram_tools, bedrock_model, agent, registered,
                    cleanup_runs, cleanup_error, result, died_at, exit_code >>

\* client.stop() ending as o, for the MCPClient in state h.
HandleAfterStop(h, o) == IF o = "ok" THEN "Stopped" ELSE h

\* Line 177: the notice of the degraded mode.
LimitedFunctionalityNotice ==
    <<"Continuing with limited functionality (MCP tools disabled)", "app">>

\* The mutant of HandlerOutput that degrades without saying so.
HandlerOutputSilent ==
    {<<"MCP client initialization failed", "app">>, <<"Troubleshooting tips", "app">>}

\* Lines 140-158 and 177: what the module-level handler prints.
HandlerOutput ==
    {<<"MCP client initialization failed", "app">>, <<"Troubleshooting tips", "app">>,
     LimitedFunctionalityNotice}

\* The mutant of FailureHandler that ends the process, as an all-or-nothing
\* start-up would.
FailureHandlerExits ==
    /\ pc = "handler"
    /\ pc' = "exiting"
    /\ died_at' = "handler"
    /\ exit_code' = 1
    /\ mcp_initialized' = FALSE
    /\ out' = out \cup {<<"MCP client initialization failed", "app">>}
    /\ UNCHANGED << health_vars, last_call, list_calls, sub_causes, env, aws_docs_mcp_client, aws_diagram_mcp_client, docs_success,
                    diagram_success, error_type, handle, served, attempts, stops,
                    docs_tools, diagram_tools, bedrock_model, agent, registered,
                    cleanup_runs, cleanup_error, result >>

\* Lines 139-177: the except BaseException clause of the module-level try.
\* Each stop() is wrapped in a bare except, so its outcome is swallowed.
FailureHandler ==
    /\ pc = "handler"
    /\ \E o1 \in Outcomes, o2 \in Outcomes :
         LET stopDocs    == aws_docs_mcp_client # None
             stopDiagram == aws_diagram_mcp_client # None
         IN  /\ (~stopDocs => o1 = "ok")
             /\ (~stopDiagram => o2 = "ok")
             /\ stops' = [p \in Providers |->
                            IF (p = "docs" /\ stopDocs) \/ (p = "diagram" /\ stopDiagram)
                            THEN stops[p] + 1 ELSE stops[p]]
             /\ handle' = [p \in Providers |->
                            IF p = "docs" /\ stopDocs THEN HandleAfterStop(handle[p], o1)
                            ELSE IF p = "diagram" /\ stopDiagram
                            THEN HandleAfterStop(handle[p], o2)
                            ELSE handle[p]]
    /\ aws_docs_mcp_client' = None
    /\ aws_diagram_mcp_client' = None
    /\ mcp_initialized' = FALSE
    /\ out' = out \cup HandlerOutput
    /\ pc' = "list_docs"
    /\ UNCHANGED << health_vars, last_call, list_calls, sub_causes, env, docs_success, diagram_success, error_type, served, attempts,
                    docs_tools, diagram_tools, bedrock_model, agent, registered,
                    cleanup_runs, cleanup_error, result, died_at, exit_code >>

\* ------------------------------------------------------------ lines 179-218

\* "mcp_initialized and <client> is not None" of lines 180, 181, 222, 229.
UsesClient(client) == mcp_initialized /\ client # None

\* Line 180.
ListDocsTools ==
    /\ pc = "list_docs"
    /\ list_calls' = [list_calls EXCEPT !["docs"] =
                         IF UsesClient(aws_docs_mcp_client) THEN @ + 1 ELSE @]
    /\ \E o \in Outcomes :
         IF UsesClient(aws_docs_mcp_client)
         THEN IF o = "ok"
              THEN /\ docs_tools' = served["docs"]
                   /\ pc' = "list_diagram"
                   /\ UNCHANGED << died_at, exit_code >>
              ELSE /\ pc' = "exiting"
                   /\ died_at' = "list_docs"
                   /\ exit_code' = 1
                   /\ UNCHANGED docs_tools
         ELSE /\ o = "ok"
              /\ docs_tools' = << >>
              /\ pc' = "list_diagram"
              /\ UNCHANGED << died_at, exit_code >>
    /\ UNCHANGED << health_vars, last_call, sub_causes, env, mcp_initialized, aws_docs_mcp_client, aws_diagram_mcp_client,
                    docs_success, diagram_success, error_type, handle, served,
                    attempts, stops, diagram_tools, bedrock_model, agent, registered,
                    cleanup_runs, cleanup_error, result, out >>

\* Line 181.
ListDiagramTools ==
    /\ pc = "list_diagram"
    /\ list_calls' = [list_calls EXCEPT !["diagram"] =
                         IF UsesClient(aws_diagram_mcp_client) THEN @ + 1 ELSE @]
    /\ \E o \in Outcomes :
         IF UsesClient(aws_diagram_mcp_client)
         THEN IF o = "ok"
              THEN /\ diagram_tools' = served["diagram"]
                   /\ pc' = "model"
                   /\ UNCHANGED << died_at, exit_code >>
              ELSE /\ pc' = "exiting"
                   /\ died_at' = "list_diagram"
                   /\ exit_code' = 1
                   /\ UNCHANGED diagram_tools
         ELSE /\ o = "ok"
              /\ diagram_tools' = << >>
              /\ pc' = "model"
              /\ UNCHANGED << died_at, exit_code >>
    /\ UNCHANGED << health_vars, last_call, sub_causes, env, mcp_initialized, aws_docs_mcp_client, aws_diagram_mcp_client,
                    docs_success, diagram_success, error_type, handle, served,
                    attempts, stops, docs_tools, bedrock_model, agent, registered,
                    cleanup_runs, cleanup_error, result, out >>

\* Lines 184-188.
CreateBedrockModel ==
    /\ pc = "model"
    /\ \E o \in Outcomes :
         IF o = "ok"
         THEN /\ bedrock_model' = "BedrockModel"
              /\ pc' = "agent"
              /\ UNCHANGED << died_at, exit_code >>
         ELSE /\ pc' = "exiting"
              /\ died_at' = "model"
              /\ exit_code' = 1
              /\ UNCHANGED bedrock_model
    /\ UNCHANGED << health_vars, last_call, list_calls, sub_causes, env, mcp_initialized, aws_docs_mcp_client, aws_diagram_mcp_client,
                    docs_success, diagram_success, error_type, handle, served,
                    attempts, stops, docs_tools, diagram_tools, agent, registered,
                    cleanup_runs, cleanup_error, result, out >>

\* The mutant of Registry that lists the Diagram tools before the
\* Documentation tools.
RegistrySwapped(built_ins, docs, diagram) == built_ins \o diagram \o docs

\* Line 215: [use_aws] + docs_tools + diagram_tools
Registry(built_ins, docs, diagram) == built_ins \o docs \o diagram

\* Lines 214-218.
CreateAgent ==
    /\ pc = "agent"
    /\ \E o \in Outcomes :
         IF o = "ok"
         THEN /\ agent' = [bound |-> TRUE,
                           tools |-> Registry(BuiltIns, docs_tools, diagram_tools),
                           model |-> bedrock_model]
              /\ pc' = "register"
              /\ UNCHANGED << died_at, exit_code >>
         ELSE /\ pc' = "exiting"
              /\ died_at' = "agent"
              /\ exit_code' = 1
              /\ UNCHANGED agent
    /\ UNCHANGED << health_vars, last_call, list_calls, sub_causes, env, mcp_initialized, aws_docs_mcp_client, aws_diagram_mcp_client,
                    docs_success, diagram_success, error_type, handle, served,
                    attempts, stops, docs_tools, diagram_tools, bedrock_model,
                    registered, cleanup_runs, cleanup_error, result, out >>

\* Line 236.
RegisterCleanup ==
    /\ pc = "register"
    /\ registered' = TRUE
    /\ pc' = "running"
    /\ UNCHANGED << health_vars, last_call, list_calls, sub_causes, env, mcp_initialized, aws_docs_mcp_client, aws_diagram_mcp_client,
                    docs_success, diagram_success, error_type, handle, served,
                    attempts, stops, docs_tools, diagram_tools, bedrock_model, agent,
                    cleanup_runs, cleanup_error, result, died_at, exit_code, out >>

\* ------------------------------------------------------------ lines 220-236

\* "except Exception" of lines 226 and 233.
CaughtAtCleanup(e) == IsException(e)

\* One "if ...: try: <client>.stop()" block of cleanup() (lines 222-227,
\* 229-234) for provider p, whose stop() ends as o, run on the partial
\* result st of the call; a block is not reached once an exception propagates.
StopBlock(p, o, st) ==
    IF st.error # "none" \/ ~UsesClient(Client(p))
    THEN st
    ELSE LET called == [st EXCEPT !.stops[p] = @ + 1,
                                  !.handle[p] = HandleAfterStop(@, o)]
         IN  IF o = "ok"
             THEN [called EXCEPT !.out = @ \cup {<<"MCP client stopped", p>>}]
             ELSE IF CaughtAtCleanup(o)
             THEN [called EXCEPT !.out = @ \cup {<<"Error stopping MCP client", p>>}]
             ELSE [called EXCEPT !.error = o]

\* cleanup(), where the Documentation client's stop() ends as o1 and the
\* Diagram client's as o2.
cleanup(o1, o2) ==
    StopBlock("diagram", o2,
        StopBlock("docs", o1,
            [stops |-> stops, handle |-> handle, out |-> out, error |-> "none"]))

\* A direct call of cleanup() by the code that imported the module.
CallCleanup ==
    /\ pc = "running"
    /\ cleanup_runs < MaxCleanupCalls
    /\ \E o1 \in Outcomes, o2 \in Outcomes :
         LET r == cleanup(o1, o2)
         IN  /\ (~UsesClient(aws_docs_mcp_client) => o1 = "ok")
             /\ (~UsesClient(aws_diagram_mcp_client) => o2 = "ok")
             /\ stops' = r.stops
             /\ handle' = r.handle
             /\ out' = r.out
             /\ cleanup_error' = r.error
    /\ cleanup_runs' = cleanup_runs + 1
    /\ UNCHANGED << health_vars, last_call, list_calls, sub_causes, env, pc, mcp_initialized, aws_docs_mcp_client,
                    aws_diagram_mcp_client, docs_success, diagram_success,
                    error_type, served, attempts, docs_tools, diagram_tools,
                    bedrock_model, agent, registered, result, died_at, exit_code >>

\* ------------------------------------------------------------ lines 247-260

\* execute_custom_task(task_description), where agent(task_description) ends
\* as o: the returned string, or the exception that leaves the function.
execute_custom_task(task_description, o) ==
    IF o = "ok"
    THEN [returned |-> "response", raised |-> "none",
          agent_input |-> task_description, agent_calls |-> 1]
    ELSE IF IsException(o)
    THEN [returned |-> "Error executing task", raised |-> "none",
          agent_input |-> task_description, agent_calls |-> 1]
    ELSE [returned |-> "none", raised |-> o,
          agent_input |-> task_description, agent_calls |-> 1]

\* Line 270: the task the module runs as a script.
MainTask == "List all EC2 instances and their status"

\* The mutant of ExecuteCustomTask that also clears the any-usable flag.
ExecuteCustomTaskClearsFlag ==
    /\ pc = "running"
    /\ mcp_initialized' = FALSE
    /\ \E o \in Outcomes :
         LET r == execute_custom_task(MainTask, o)
         IN  IF r.raised = "none"
             THEN /\ result' = r.returned
                  /\ UNCHANGED << pc, died_at, exit_code >>
             ELSE /\ result' = "raised"
                  /\ pc' = "exiting"
                  /\ died_at' = "task"
                  /\ exit_code' = 1
    /\ UNCHANGED << health_vars, last_call, list_calls, sub_causes, env, aws_docs_mcp_client,
                    aws_diagram_mcp_client, docs_success, diagram_success,
                    error_type, handle, served, attempts, stops, docs_tools,
                    diagram_tools, bedrock_model, agent, registered, cleanup_runs,
                    cleanup_error, out >>

\* A call of execute_custom_task by the importing code or by line 270.  An
\* exception that leaves it is not handled by any caller in this repository.
ExecuteCustomTask ==
    /\ pc = "running"
    /\ \E o \in Outcomes :
         LET r == execute_custom_task(MainTask, o)
         IN  IF r.raised = "none"
             THEN /\ result' = r.returned
                  /\ UNCHANGED << pc, died_at, exit_code >>
             ELSE /\ result' = "raised"
                  /\ pc' = "exiting"
                  /\ died_at' = "task"
                  /\ exit_code' = 1
    /\ UNCHANGED << health_vars, last_call, list_calls, sub_causes, env, mcp_initialized, aws_docs_mcp_client, aws_diagram_mcp_client,
                    docs_success, diagram_success, error_type, handle, served,
                    attempts, stops, docs_tools, diagram_tools, bedrock_model, agent,
                    registered, cleanup_runs, cleanup_error, out >>

\* ------------------------------------------------------------ lines 238-245

\* Lines 25-37.
PREDEFINED_TASKS ==
    [ec2_status        |-> "List all EC2 instances and their status",
     s3_buckets        |-> "List all S3 buckets and their creation dates",
     cloudwatch_alarms |-> "Check for any CloudWatch alarms in ALARM state",
     iam_users         |-> "List all IAM users and their last activity",
     security_groups   |-> "Analyze security groups for potential vulnerabilities",
     cost_optimization |-> "Identify resources that could be optimized for cost",
     lambda_functions  |-> "List all Lambda functions and their runtime",
     rds_instances     |-> "Check status of all RDS instances",
     vpc_analysis      |-> "Analyze VPC configuration and suggest improvements",
     ebs_volumes       |-> "Find unattached EBS volumes that could be removed",
     generate_diagram  |-> "Generate AWS architecture diagrams based on user description"]

\* The task keys a caller passes: two that are defined and one that is not.
TaskKeys == {"ec2_status", "generate_diagram", "not_a_task"}

\* The mutant of execute_predefined_task that hands the Agent the key, and
\* does so for a key that is not defined too.
execute_predefined_task_by_key(task_key, o) == execute_custom_task(task_key, o)

\* execute_predefined_task(task_key), where agent(task_description) ends as o.
execute_predefined_task(task_key, o) ==
    IF task_key \notin DOMAIN PREDEFINED_TASKS
    THEN [returned |-> "Error: Task not found", raised |-> "none",
          agent_input |-> "none", agent_calls |-> 0]
    ELSE execute_custom_task(PREDEFINED_TASKS[task_key], o)

\* A call of execute_predefined_task by the importing code.
ExecutePredefinedTask ==
    /\ pc = "running"
    /\ \E task_key \in TaskKeys, o \in Outcomes :
         LET r == execute_predefined_task(task_key, o)
         IN  /\ (task_key \notin DOMAIN PREDEFINED_TASKS => o = "ok")
             /\ IF r.raised = "none"
                THEN /\ result' = r.returned
                     /\ UNCHANGED << pc, died_at, exit_code >>
                ELSE /\ result' = "raised"
                     /\ pc' = "exiting"
                     /\ died_at' = "task"
                     /\ exit_code' = 1
    /\ UNCHANGED << health_vars, last_call, list_calls, sub_causes, env, mcp_initialized,
                    aws_docs_mcp_client, aws_diagram_mcp_client,
                    docs_success, diagram_success, error_type, handle, served,
                    attempts, stops, docs_tools, diagram_tools, bedrock_model, agent,
                    registered, cleanup_runs, cleanup_error, out >>

\* Lines 263-265: a call of get_predefined_tasks by the importing code.
GetPredefinedTasks ==
    /\ pc = "running"
    /\ result' = "PREDEFINED_TASKS"
    /\ UNCHANGED << health_vars, last_call, list_calls, sub_causes, env, pc, mcp_initialized,
                    aws_docs_mcp_client, aws_diagram_mcp_client,
                    docs_success, diagram_success, error_type, handle, served,
                    attempts, stops, docs_tools, diagram_tools, bedrock_model, agent,
                    registered, cleanup_runs, cleanup_error, died_at, exit_code, out >>

\* ------------------------------------------------------------ process exit

\* The main program ends normally.
ProcessEnds ==
    /\ pc = "running"
    /\ pc' = "exiting"
    /\ exit_code' = 0
    /\ UNCHANGED << health_vars, last_call, list_calls, sub_causes, env, mcp_initialized, aws_docs_mcp_client, aws_diagram_mcp_client,
                    docs_success, diagram_success, error_type, handle, served,
                    attempts, stops, docs_tools, diagram_tools, bedrock_model, agent,
                    registered, cleanup_runs, cleanup_error, result, died_at, out >>

\* Interpreter shutdown: atexit runs cleanup() when line 236 registered it.
AtExit ==
    /\ pc = "exiting"
    /\ pc' = "exited"
    /\ IF registered
       THEN /\ \E o1 \in Outcomes, o2 \in Outcomes :
                 LET r == cleanup(o1, o2)
                 IN  /\ (~UsesClient(aws_docs_mcp_client) => o1 = "ok")
                     /\ (~UsesClient(aws_diagram_mcp_client) => o2 = "ok")
                     /\ stops' = r.stops
                     /\ handle' = r.handle
                     /\ out' = r.out
                     /\ cleanup_error' = r.error
            /\ cleanup_runs' = cleanup_runs + 1
       ELSE UNCHANGED << stops, handle, out, cleanup_error, cleanup_runs >>
    /\ UNCHANGED << health_vars, last_call, list_calls, sub_causes, env, mcp_initialized, aws_docs_mcp_client, aws_diagram_mcp_client,
                    docs_success, diagram_success, error_type, served, attempts,
                    docs_tools, diagram_tools, bedrock_model, agent, registered,
                    result, died_at, exit_code >>

Next ==
    \/ ValidateEnv
    \/ InitDocs
    \/ InitDiagram
    \/ MarkInitialized
    \/ FailureHandler
    \/ ListDocsTools
    \/ ListDiagramTools
    \/ CreateBedrockModel
    \/ CreateAgent
    \/ RegisterCleanup
    \/ CallCleanup
    \/ ExecuteCustomTask
    \/ ExecutePredefinedTask
    \/ GetPredefinedTasks
    \/ ProcessEnds
    \/ AtExit

Spec == Init /\ [][Next]_vars

\* ------------------------------------------------------------ recorded calls

\* The descriptions a caller passes to execute_custom_task: the one of line
\* 270 and one that is no predefined task.
TaskDescriptions == {MainTask, "Describe the default VPC"}

\* The record of a call of function with task_key, that returned or raised
\* r while agent() ended as o.
RecordedCall(function, task_key, o, r) ==
    [function |-> function, task_key |-> task_key, agent_input |-> r.agent_input,
     agent_outcome |-> IF r.agent_calls > 0 THEN o ELSE "none",
     agent_calls |-> r.agent_calls]

\* ExecuteCustomTask with its argument and the Agent's invocation recorded.
CustomTaskCall ==
    /\ pc = "running"
    /\ \E task_description \in TaskDescriptions, o \in Outcomes :
         LET r == execute_custom_task(task_description, o)
         IN  /\ last_call' = RecordedCall("execute_custom_task", "none", o, r)
             /\ IF r.raised = "none"
                THEN /\ result' = r.returned
                     /\ UNCHANGED << pc, died_at, exit_code >>
                ELSE /\ result' = "raised"
                     /\ pc' = "exiting"
                     /\ died_at' = "task"
                     /\ exit_code' = 1
    /\ UNCHANGED << health_vars, list_calls, sub_causes, env, mcp_initialized,
                    aws_docs_mcp_client, aws_diagram_mcp_client,
                    docs_success, diagram_success, error_type, handle, served,
                    attempts, stops, docs_tools, diagram_tools, bedrock_model, agent,
                    registered, cleanup_runs, cleanup_error, out >>

\* ExecutePredefinedTask with its argument and the Agent's invocation
\* recorded.
PredefinedTaskCall ==
    /\ pc = "running"
    /\ \E task_key \in TaskKeys, o \in Outcomes :
         LET r == execute_predefined_task(task_key, o)
         IN  /\ (r.agent_calls = 0 => o = "ok")
             /\ last_call' = RecordedCall("execute_predefined_task", task_key, o, r)
             /\ IF r.raised = "none"
                THEN /\ result' = r.returned
                     /\ UNCHANGED << pc, died_at, exit_code >>
                ELSE /\ result' = "raised"
                     /\ pc' = "exiting"
                     /\ died_at' = "task"
                     /\ exit_code' = 1
    /\ UNCHANGED << health_vars, list_calls, sub_causes, env, mcp_initialized,
                    aws_docs_mcp_client, aws_diagram_mcp_client,
                    docs_success, diagram_success, error_type, handle, served,
                    attempts, stops, docs_tools, diagram_tools, bedrock_model, agent,
                    registered, cleanup_runs, cleanup_error, out >>

\* GetPredefinedTasks, recorded.
PredefinedTasksCall ==
    /\ pc = "running"
    /\ result' = "PREDEFINED_TASKS"
    /\ last_call' = [NoCall EXCEPT !.function = "get_predefined_tasks"]
    /\ UNCHANGED << health_vars, list_calls, sub_causes, env, pc, mcp_initialized,
                    aws_docs_mcp_client, aws_diagram_mcp_client,
                    docs_success, diagram_success, error_type, handle, served,
                    attempts, stops, docs_tools, diagram_tools, bedrock_model, agent,
                    registered, cleanup_runs, cleanup_error, died_at, exit_code, out >>

\* The module is imported as in Spec; the task functions are then called
\* with every call recorded.
TaskNext ==
    \/ ValidateEnv
    \/ InitDocs
    \/ InitDiagram
    \/ MarkInitialized
    \/ FailureHandler
    \/ ListDocsTools
    \/ ListDiagramTools
    \/ CreateBedrockModel
    \/ CreateAgent
    \/ RegisterCleanup
    \/ CustomTaskCall
    \/ PredefinedTaskCall
    \/ PredefinedTasksCall
    \/ ProcessEnds
    \/ AtExit

TaskSpec == Init /\ [][TaskNext]_vars

\* ------------------------------------------------------------ health_check.py

\* Lines 13-26: not os.environ.get(var) is true of an absent and of an empty
\* value.
check_environment_variables(e) ==
    LET missing_vars == {n \in RequiredVars : e[n] \in {"unset", "empty"}}
    IN  IF missing_vars # {} THEN "warning" ELSE "ok"

\* Lines 28-48.
check_dependencies(found) ==
    LET failed_imports == {m \in critical_modules : m \notin found}
    IN  IF failed_imports # {} THEN "error" ELSE "ok"

\* Lines 50-63.
check_application_files(present) ==
    LET missing_files == {f \in required_files : f \notin present}
    IN  IF missing_files # {} THEN "error" ELSE "ok"

\* The mutant of health_check that answers 503 to a warning too.
health_check_strict(e, found, present) ==
    LET checks == [environment |-> check_environment_variables(e),
                   dependencies |-> check_dependencies(found),
                   files |-> check_application_files(present)]
        has_error == \E c \in DOMAIN checks : checks[c] \in {"error", "warning"}
    IN  [endpoint |-> "/health",
         status |-> IF has_error THEN "unhealthy" ELSE "healthy",
         http_status |-> IF has_error THEN 503 ELSE 200,
         checks |-> checks]

\* Lines 65-106.
health_check(e, found, present) ==
    LET checks == [environment |-> check_environment_variables(e),
                   dependencies |-> check_dependencies(found),
                   files |-> check_application_files(present)]
        has_error   == \E c \in DOMAIN checks : checks[c] = "error"
        has_warning == \E c \in DOMAIN checks : checks[c] = "warning"
    IN  [endpoint |-> "/health",
         status |-> IF has_error THEN "unhealthy"
                    ELSE IF has_warning THEN "degraded" ELSE "healthy",
         http_status |-> IF has_error THEN 503 ELSE 200,
         checks |-> checks]

\* Lines 108-121.
liveness_check ==
    [endpoint |-> "/health/live", status |-> "alive", http_status |-> 200,
     checks |-> NoResponse.checks]

\* Lines 123-157: the files are not checked.
readiness_check(e, found) ==
    LET checks == [environment |-> check_environment_variables(e),
                   dependencies |-> check_dependencies(found),
                   files |-> "none"]
        has_error == \E c \in DOMAIN checks : checks[c] = "error"
    IN  [endpoint |-> "/health/ready",
         status |-> IF has_error THEN "not_ready" ELSE "ready",
         http_status |-> IF has_error THEN 503 ELSE 200,
         checks |-> checks]

\* The health check server starts in some environment, with some of the
\* modules installed and some of the files in place.
HealthInit ==
    /\ env \in [RequiredVars \cup OptionalVars -> EnvValues]
    /\ AgentInit
    /\ found_modules \in SUBSET critical_modules
    /\ present_files \in SUBSET required_files
    /\ response = NoResponse

\* GET /health
HealthCheck ==
    /\ response' = health_check(env, found_modules, present_files)
    /\ UNCHANGED << env, agent_vars, found_modules, present_files >>

\* GET /health/live
LivenessCheck ==
    /\ response' = liveness_check
    /\ UNCHANGED << env, agent_vars, found_modules, present_files >>

\* GET /health/ready
ReadinessCheck ==
    /\ response' = readiness_check(env, found_modules)
    /\ UNCHANGED << env, agent_vars, found_modules, present_files >>

HealthNext ==
    \/ HealthCheck
    \/ LivenessCheck
    \/ ReadinessCheck

HealthSpec == HealthInit /\ [][HealthNext]_vars

\* ------------------------------------------------------------ claims

\* Environment validation passed and both start attempts are over.
InitDone ==
    /\ died_at # "validate"
    /\ pc \in {"list_docs", "list_diagram", "model", "agent", "register",
               "running", "exiting", "exited"}

\* The provider's client reached Started (it may have been stopped since).
ReachedStarted(p) == handle[p] \in {"Started", "Stopped"}

AllFailed == \A p \in Providers : handle[p] = "Failed"

\* What initialize_mcp_client handed back for p: a started client, or
\* (None, False).
HasResult(p) ==
    \/ Success(p) = "True" /\ Client(p) = p /\ ReachedStarted(p)
    \/ Success(p) = "False" /\ Client(p) = None /\ handle[p] = "Failed"

\* C1: whatever the factory and start() of either provider do (return, or
\* raise any exception kind), once a provider's start attempt is over it has
\* a result, a started client or (None, False), and no exception ends the
\* module during initialization.
C1_InitYieldsResults ==
    /\ (pc \notin {"validate", "init_docs"} /\ died_at # "validate") => HasResult("docs")
    /\ InitDone => HasResult("diagram")
    /\ died_at \notin {"init_docs", "init_diagram", "mark", "handler"}

C1_Witness ==
    /\ pc = "list_docs"
    /\ error_type["docs"] = "KeyboardInterrupt"
    /\ error_type["diagram"] = "RuntimeError"
    /\ docs_success = "False"
    /\ diagram_success = "False"

\* C2: when validation passed, the Diagram provider's start is attempted
\* once, after the Documentation provider's and whatever that one's outcome
\* was; the failure handler is entered only after both attempts.
C2_SecondAlwaysAttempted ==
    /\ (pc \notin {"validate", "init_docs"} /\ died_at # "validate")
          => attempts["docs"] = 1
    /\ (pc \notin {"validate", "init_docs", "init_diagram"} /\ died_at # "validate")
          => attempts["diagram"] = 1
    /\ pc = "init_diagram" => attempts["diagram"] = 0

C2_Witness ==
    /\ error_type["docs"] = "ExceptionGroup"
    /\ handle["docs"] = "Failed"
    /\ attempts["diagram"] = 1
    /\ handle["diagram"] = "Started"

\* C3: once initialization is over, mcp_initialized is true exactly when a
\* client reference is not None, which is exactly when a provider reached
\* Started.
C3_FlagIffAnyStarted ==
    InitDone =>
        /\ mcp_initialized <=>
              (aws_docs_mcp_client # None \/ aws_diagram_mcp_client # None)
        /\ mcp_initialized <=> (\E p \in Providers : ReachedStarted(p))
        /\ \A p \in Providers : Client(p) # None <=> ReachedStarted(p)

C3_Witness ==
    /\ pc = "running"
    /\ mcp_initialized
    /\ aws_docs_mcp_client = None
    /\ handle["diagram"] = "Started"

\* C4: when both providers failed to start, the flag is false and both
\* references are None, initialization does not end the process (only the
\* model or Agent constructor, or a task, can), and the Agent, once
\* constructed, holds exactly the built-in tools.
C4_TotalFailureDegrades ==
    AllFailed =>
        /\ ~mcp_initialized
        /\ aws_docs_mcp_client = None
        /\ aws_diagram_mcp_client = None
        /\ died_at \in {"none", "model", "agent", "task"}
        /\ agent.bound => agent.tools = BuiltIns
        /\ (pc \in {"register", "running"} \/ died_at = "task") => agent.bound

C4_Witness ==
    /\ AllFailed
    /\ pc = "running"
    /\ agent.bound
    /\ served["docs"] # << >>

\* The tools provider p contributes: those it serves if it reached Started.
Contribution(p) == IF ReachedStarted(p) THEN served[p] ELSE << >>

\* C5: the Agent's tools are the built-ins, then the Documentation tools,
\* then the Diagram tools, none twice; their number is the number of
\* built-ins plus the tool counts of the providers that started.
C5_RegistryOrderAndLength ==
    agent.bound =>
        /\ agent.tools = BuiltIns \o Contribution("docs") \o Contribution("diagram")
        /\ Len(agent.tools) = Len(BuiltIns) + Len(Contribution("docs"))
                                + Len(Contribution("diagram"))
        /\ \A i, j \in 1..Len(agent.tools) : agent.tools[i] = agent.tools[j] => i = j

C5_Witness ==
    /\ agent.bound
    /\ Len(served["docs"]) = 1
    /\ Len(served["diagram"]) = 2
    /\ handle["docs"] = "Started"
    /\ handle["diagram"] = "Started"

\* C6: a provider whose start failed has no client reference and an empty
\* tool list, and the Agent holds none of its tools.
C6_FailedHoldsNothing ==
    \A p \in Providers :
        handle[p] = "Failed" =>
            /\ Client(p) = None
            /\ (IF p = "docs" THEN docs_tools ELSE diagram_tools) = << >>
            /\ agent.bound =>
                  \A i \in 1..Len(agent.tools) : agent.tools[i].provider # p

C6_Witness ==
    /\ agent.bound
    /\ handle["diagram"] = "Failed"
    /\ served["diagram"] # << >>
    /\ handle["docs"] = "Started"

\* C7: a second run of cleanup() calls stop() on no provider that is
\* already stopped.
C7_ShutdownIdempotent ==
    [][(cleanup_runs >= 1 /\ cleanup_runs' = cleanup_runs + 1)
          => \A p \in Providers : handle[p] = "Stopped" => stops'[p] = stops[p]]_vars

\* C8: whatever the Documentation client's stop() raised in cleanup(), the
\* Diagram client's stop() is attempted as well: cleanup() has called stop()
\* on the Diagram client as often as on the Documentation client.
C8_ShutdownCompletes ==
    (/\ cleanup_runs >= 1
     /\ UsesClient(aws_docs_mcp_client)
     /\ UsesClient(aws_diagram_mcp_client)
     /\ handle["docs"] = "Started"
     /\ stops["docs"] >= 1)
        => stops["diagram"] = stops["docs"]

\* C9: when the module ran to its end and cleanup() ran once, as the exit
\* hook, stop() was attempted exactly once on every provider that started.
C9_StopExactlyOnce ==
    (pc = "exited" /\ registered /\ cleanup_runs = 1) =>
        \A p \in Providers : ReachedStarted(p) => stops[p] = 1

\* C10: the process never terminates with a started provider and no
\* registered exit hook.
C10_HookRegisteredBeforeExit ==
    (pc \in {"exiting", "exited"} /\ \E p \in Providers : ReachedStarted(p))
        => registered

\* A required variable that validate_environment_variables finds missing:
\* unset, empty or whitespace only.
RequiredVarMissing == \E n \in RequiredVars : env[n] \in {"unset", "empty", "blank"}

\* C11: when a provider's start() raises a grouped failure, whichever type
\* carries the list of sub-exceptions, the provider ends Failed with the
\* result (None, False) and every one of its sub-exceptions is printed.
C11_GroupedFailureReported ==
    \A p \in Providers :
        (/\ <<"Starting", p>> \in out
         /\ handle[p] = "Failed"
         /\ HasSubExceptions(error_type[p]))
        => /\ Client(p) = None
           /\ Success(p) = "False"
           /\ \A i \in 1..sub_causes[p] : <<SubExceptionLine[i], p>> \in out

\* C12: a list_tools_sync() call that fails does not end the module: the
\* run goes on to construct the Agent.
C12_ListFailureRecovered ==
    (pc \in {"exiting", "exited"} /\ \E p \in Providers : list_calls[p] > 0)
        => /\ died_at \notin {"list_docs", "list_diagram"}
           /\ agent.bound

\* C13: the tool registry is built without any call to a provider.
C13_RegistryBuiltWithoutCalls ==
    agent.bound => \A p \in Providers : list_calls[p] = 0

\* C14: whatever the Agent raises while it handles a task, the task function
\* returns a string and no exception reaches its caller.
C14_TaskErrorsReturned ==
    /\ result # "raised"
    /\ died_at # "task"

\* C16: once initialization is over, the limited-functionality notice has
\* been printed exactly when mcp_initialized is false; it is never printed
\* earlier, so a degraded Agent is constructed after the notice.
C16_DegradedModeAnnounced ==
    /\ InitDone => (~mcp_initialized <=> LimitedFunctionalityNotice \in out)
    /\ ~InitDone => LimitedFunctionalityNotice \notin out
    /\ (agent.bound /\ ~mcp_initialized) => LimitedFunctionalityNotice \in out

C16_Witness ==
    /\ agent.bound
    /\ AllFailed
    /\ ~mcp_initialized
    /\ LimitedFunctionalityNotice \in out

\* The two client references and the any-usable flag.
ManagerState == << aws_docs_mcp_client, aws_diagram_mcp_client, mcp_initialized >>

\* C17: the three task functions leave the client references and
\* mcp_initialized unchanged, and once initialization is over the only step
\* that may change them is a run of cleanup().
C17_ManagerStateFrame ==
    [][/\ (ExecuteCustomTask \/ ExecutePredefinedTask \/ GetPredefinedTasks)
            => ManagerState' = ManagerState
       /\ (InitDone /\ ManagerState' # ManagerState)
            => cleanup_runs' = cleanup_runs + 1]_vars

C17_Witness ==
    /\ pc = "running"
    /\ result = "Error: Task not found"
    /\ cleanup_runs = 1
    /\ handle["docs"] = "Stopped"
    /\ mcp_initialized
    /\ aws_docs_mcp_client = "docs"

\* C18: when a required variable is missing the process exits with code 1
\* with no start attempted and no Agent constructed; a start is attempted
\* only when every required variable holds a value.
C18_ValidationFirst ==
    /\ (pc # "validate" /\ RequiredVarMissing)
          => /\ pc \in {"exiting", "exited"}
             /\ exit_code = 1
             /\ \A p \in Providers : attempts[p] = 0
             /\ ~agent.bound
    /\ pc = "validate" => (\A p \in Providers : attempts[p] = 0) /\ ~agent.bound
    /\ (\E p \in Providers : attempts[p] > 0) => ~RequiredVarMissing

C18_Witness ==
    /\ pc = "exited"
    /\ env["AWS_REGION"] = "blank"
    /\ exit_code = 1
    /\ \A p \in Providers : attempts[p] = 0

\* C19: validation raises EnvironmentValidationError exactly when one of the
\* three required variables is unset, empty or whitespace only, whatever
\* AWS_SESSION_TOKEN holds.
C19_RaisesIffRequiredMissing ==
    pc # "validate" => (died_at = "validate" <=> RequiredVarMissing)

C19_Witness ==
    /\ pc = "init_docs"
    /\ env["AWS_SESSION_TOKEN"] = "unset"
    /\ died_at = "none"

\* C20: /health answers 503 and 'unhealthy' exactly when a module cannot be
\* found or a file is absent; otherwise it answers 200, 'degraded' exactly
\* when a required variable is not set and 'healthy' when nothing is amiss.
\* With every module and file in place the answer is 200 whatever the
\* environment holds.
C20_HealthStatus ==
    response.endpoint = "/health" =>
        LET c       == response.checks
            error   == \E k \in DOMAIN c : c[k] = "error"
            warning == \E k \in DOMAIN c : c[k] = "warning"
        IN  /\ c.environment =
                   IF \E n \in RequiredVars : env[n] \in {"unset", "empty"}
                   THEN "warning" ELSE "ok"
            /\ c.dependencies = IF found_modules = critical_modules THEN "ok" ELSE "error"
            /\ c.files = IF present_files = required_files THEN "ok" ELSE "error"
            /\ error <=> (response.http_status = 503 /\ response.status = "unhealthy")
            /\ ~error => response.http_status = 200
            /\ (~error /\ warning) <=> response.status = "degraded"
            /\ (~error /\ ~warning) <=> response.status = "healthy"
            /\ (found_modules = critical_modules /\ present_files = required_files)
                   => response.http_status = 200

C20_Witness ==
    /\ response.endpoint = "/health"
    /\ response.status = "degraded"
    /\ response.http_status = 200
    /\ \A n \in RequiredVars : env[n] = "unset"

\* C21: execute_predefined_task with a key that PREDEFINED_TASKS lacks
\* returns the 'not found' string and the Agent is not invoked; with a key
\* it has, the Agent is invoked once, with that key's description, and the
\* outcome is the one of execute_custom_task for that description.
C21_PredefinedTaskDispatch ==
    last_call.function = "execute_predefined_task" =>
        IF last_call.task_key \notin DOMAIN PREDEFINED_TASKS
        THEN /\ result = "Error: Task not found"
             /\ last_call.agent_calls = 0
             /\ died_at # "task"
        ELSE /\ last_call.agent_calls = 1
             /\ last_call.agent_input = PREDEFINED_TASKS[last_call.task_key]
             /\ LET r == execute_custom_task(PREDEFINED_TASKS[last_call.task_key],
                                             last_call.agent_outcome)
                IN  result = IF r.raised = "none" THEN r.returned ELSE "raised"

C21_Witness ==
    /\ last_call.function = "execute_predefined_task"
    /\ last_call.task_key = "generate_diagram"
    /\ last_call.agent_input =
          "Generate AWS architecture diagrams based on user description"
    /\ last_call.agent_calls = 1
    /\ result = "response"

\* C22: stop() is called only on a client that reached Started: a provider
\* whose construction or start() failed is never stopped, by the failure
\* handler or by cleanup(), however often cleanup() runs.
C22_StopOnlyStarted ==
    \A p \in Providers :
        /\ stops[p] > 0 => ReachedStarted(p)
        /\ handle[p] \in {"NotStarted", "Failed"} => stops[p] = 0

C22_Witness ==
    /\ pc = "exited"
    /\ <<"Starting", "docs">> \in out
    /\ handle["docs"] = "Failed"
    /\ stops["docs"] = 0
    /\ handle["diagram"] = "Stopped"
    /\ stops["diagram"] >= 1
    /\ cleanup_runs >= 1

\* C23: an interrupt raised by a provider's factory or start() is taken as
\* that provider's failure: the provider is Failed with the result
\* (None, False), the Diagram provider is still attempted after an interrupted
\* Documentation provider, and the module does not end during initialization.
C23_InterruptAbsorbed ==
    /\ \A p \in Providers :
           IsInterrupt(error_type[p])
           => /\ handle[p] = "Failed"
              /\ Client(p) = None
              /\ Success(p) = "False"
    /\ (IsInterrupt(error_type["docs"]) /\ pc # "init_diagram")
           => attempts["diagram"] = 1
    /\ (\E p \in Providers : IsInterrupt(error_type[p]))
           => died_at \notin {"init_docs", "init_diagram", "mark", "handler"}

C23_Witness ==
    /\ error_type["docs"] = "KeyboardInterrupt"
    /\ handle["docs"] = "Failed"
    /\ handle["diagram"] = "Started"
    /\ agent.bound
    /\ pc = "running"

====
